---- MODULE Spec2Model ----
(***************************************************************************)
(* Model of goloadbalancer (src/loadbalancer.go): a ServerPool holding a   *)
(* fixed slice of backends with a per-backend Alive flag and one shared    *)
(* uint64 rotation counter `current`; NextIndex / NextPeer run in any      *)
(* number of request goroutines, HealthCheck in one background goroutine.  *)
(* LbHandlerWithHealthCheck is the request handler in front of NextPeer;   *)
(* IsAlive and SetAlive are modelled a second time at the grain of the     *)
(* backend's sync.RWMutex.                                                 *)
(*                                                                         *)
(* The counter is a Go uint64.  TLC's integers are 32 bit wide, so a       *)
(* uint64 is kept here as NumLimbs limbs in base LimbBase, most            *)
(* significant first (4 limbs of 16 bit = 64 bit): the arithmetic below is *)
(* exact arithmetic modulo 2^64, not a scaled-down counter.                *)
(***************************************************************************)
EXTENDS Integers, Sequences, FiniteSets, TLC

(* ------------------------------ bounds --------------------------------- *)
\* largest pool size explored (len(s.backends) ranges over 0..MaxN)
MaxN == 3
\* number of NextIndex invocations explored in one behaviour
MaxCalls == 3
\* number of request goroutines that may be inside the pool at once
NumProcs == 2
\* initial counter values explored: 0..CursorSpan and (2^64-1-CursorSpan)..2^64-1
CursorSpan == 1
\* operations started while the health monitor runs
MonCalls == 2
\* NextPeer calls made while the health monitor runs for ever
LiveCalls == 1
\* the attempt counts a request's context carries: -1 .. MaxAttempts
MaxAttempts == 5

Procs == 1 .. NumProcs

(* ------------------------- uint64 arithmetic --------------------------- *)
NumLimbs == 4
LimbBase == 65536

Limbs == 1 .. NumLimbs

\* uint64(k) for a small non-negative int k (an index of the slice)
Uint64(k) == [j \in Limbs |-> IF j = NumLimbs THEN k ELSE 0]

\* math.MaxUint64
MaxUint64 == [j \in Limbs |-> LimbBase - 1]

RECURSIVE AddCarry(_, _, _)
AddCarry(c, j, carry) ==
    IF j = 0 \/ carry = 0
    THEN c
    ELSE LET s == c[j] + carry
         IN  AddCarry([c EXCEPT ![j] = s % LimbBase], j - 1, s \div LimbBase)

\* atomic.AddUint64's new value: (c + delta) mod 2^64
AddUint64(c, delta) == AddCarry(c, NumLimbs, delta)

RECURSIVE ModHorner(_, _, _, _)
ModHorner(c, j, r, m) ==
    IF j > NumLimbs
    THEN r
    ELSE ModHorner(c, j + 1, (r * LimbBase + c[j]) % m, m)

\* c % uint64(m) for m >= 1 (for m = 0 Go panics: the actions take that branch first)
ModUint64(c, m) == ModHorner(c, 1, 0, m)

(* ------------------------------- state --------------------------------- *)
VARIABLES
    backends,   \* s.backends: index 0..len-1 -> the backend's Alive flag
    current,    \* s.current, the shared uint64 counter
    pc,         \* per goroutine: "idle", "scan", "store" or "panic"
    next,       \* NextPeer's local `next`
    i,          \* NextPeer's loop variable `i`
    added,      \* the value atomic.AddUint64 returned to the goroutine's call
    hc,         \* HealthCheck's position in `range s.backends`; len = waiting for a tick
    hcpc,       \* HealthCheck inside the loop body: "probe" (line 140) or "set" (line 141)
    status,     \* HealthCheck's local `status`
    lastSet,    \* history: HealthCheck's most recent SetAlive, <<>> before the first
    readLog,    \* history, per goroutine: the IsAlive reads of its latest NextPeer call
    stayed,     \* history, during a call: the backends alive all through it so far
    ever,       \* history, during a call: the backends alive at some moment of it
    ops,        \* history: the increments and stores of the cursor by that call
    lpc,        \* per goroutine: its position inside IsAlive or SetAlive, "out" = in neither
    lb,         \* the backend whose mu it works on
    lv,         \* the value it read (IsAlive) or is to write (SetAlive)
    hpc,        \* per goroutine: its position inside LbHandler or LbHandlerWithHealthCheck
    att,        \* the handler's local `attempts`
    began,      \* history: the NextPeer calls the handler has made for its request
    resp,       \* history: the handler's latest response, <<>> before the first
    calls,      \* history: the number of NextIndex invocations so far
    idxLog,     \* history: what each NextIndex invocation that returned was handed
    hist,       \* history: one record per NextPeer call that returned
    current0    \* history: the counter's initial value

\* the health monitor's own state
monVars == <<hcpc, status, lastSet>>

\* the history of each goroutine's latest NextPeer call
callVars == <<readLog, stayed, ever, ops>>

\* the goroutines' positions inside Backend's methods
lockVars == <<lpc, lb, lv>>

\* the handlers' state
reqVars == <<hpc, att, began, resp>>

vars == <<backends, current, pc, next, i, added, hc, calls, idxLog, hist, current0,
          monVars, callVars, lockVars, reqVars>>

\* len(s.backends)
LenBackends == Cardinality(DOMAIN backends)

\* `return nil`
NilPeer == -1

\* mutant: the test of the flag inverted
IsAliveInverted(index) == ~backends[index]

\* Backend.IsAlive: the Alive flag read under the backend's read lock
IsAlive(index) == backends[index]

\* SetAlive with hysteresis: a backend once marked dead is never revived
SetAliveSticky(index, alive) == [backends EXCEPT ![index] = backends[index] /\ alive]

\* Backend.SetAlive: the Alive flag written under the backend's write lock
SetAlive(index, alive) == [backends EXCEPT ![index] = alive]

\* the goroutines that hold b.mu for reading
ReadLocked(b) == { h \in Procs : lb[h] = b /\ lpc[h] \in {"rlocked", "rread"} }

\* the goroutines that hold b.mu for writing or wait in Lock for it
WriteLocked(b) ==
    { h \in Procs : lb[h] = b /\ lpc[h] \in {"wpending", "wlocked", "wwritten"} }

\* the goroutines other than g that hold b.mu for reading
Readers(g, b) == ReadLocked(b) \ {g}

\* the goroutines other than g that hold b.mu for writing or wait in Lock for it
Writers(g, b) == WriteLocked(b) \ {g}

\* goroutine p is in none of the handlers and none of the backends' methods
Free(p) == hpc[p] = "none" /\ lpc[p] = "out"

\* the counter values a pool is started from: a fresh pool has current = 0;
\* the other values are the states 1, 2, ..., 2^64-1 NextIndex calls later
StartCursors ==
    { Uint64(k) : k \in 0 .. CursorSpan }
    \cup { [MaxUint64 EXCEPT ![NumLimbs] = LimbBase - 1 - k] : k \in 0 .. CursorSpan }
    \cup { Uint64(LimbBase - 1) }

Init ==
    /\ \E n \in 0 .. MaxN : backends \in [0 .. n - 1 -> BOOLEAN]
    /\ current \in StartCursors
    /\ current0 = current
    /\ pc = [p \in Procs |-> "idle"]
    /\ next = [p \in Procs |-> 0]
    /\ i = [p \in Procs |-> 0]
    /\ added = [p \in Procs |-> Uint64(0)]
    /\ hc = LenBackends
    /\ hcpc = "probe"
    /\ status = FALSE
    /\ lastSet = <<>>
    /\ readLog = [p \in Procs |-> <<>>]
    /\ stayed = [p \in Procs |-> {}]
    /\ ever = [p \in Procs |-> {}]
    /\ ops = [p \in Procs |-> [incs |-> 0, stores |-> 0]]
    /\ lpc = [p \in Procs |-> "out"]
    /\ lb = [p \in Procs |-> 0]
    /\ lv = [p \in Procs |-> FALSE]
    /\ hpc = [p \in Procs |-> "none"]
    /\ att = [p \in Procs |-> 0]
    /\ began = [p \in Procs |-> 0]
    /\ resp = [p \in Procs |-> <<>>]
    /\ calls = 0
    /\ idxLog = {}
    /\ hist = <<>>

(* ----------------------------- NextIndex ------------------------------- *)
\* -c as an unsigned 64 bit value (two's complement)
NegUint64(c) == AddUint64([j \in Limbs |-> LimbBase - 1 - c[j]], 1)

\* mutant: the counter converted to int before the remainder is taken,
\* int(cur) % len, which is negative or zero from 2^63 on
IndexOfSigned(cur, len) ==
    IF 2 * cur[1] >= LimbBase
    THEN 0 - ModUint64(NegUint64(cur), len)
    ELSE ModUint64(cur, len)

\* the index NextIndex returns when atomic.AddUint64 returned cur
IndexOf(cur, len) == ModUint64(cur, len)

\* what a NextIndex invocation that found the counter at pre was handed
IdxEntry(pre) ==
    [pre |-> pre, post |-> AddUint64(pre, 1),
     idx |-> IndexOf(AddUint64(pre, 1), LenBackends)]

\* mutant: s.current++ as a read followed by a write; the write may follow a
\* read that an earlier caller made too
NextIndexRacy(p) ==
    /\ pc[p] = "idle"
    /\ Free(p)
    /\ calls < MaxCalls
    /\ calls' = calls + 1
    /\ \E pre \in {current} \cup { e.pre : e \in idxLog } :
        /\ current' = AddUint64(pre, 1)
        /\ IF LenBackends = 0
           THEN /\ pc' = [pc EXCEPT ![p] = "panic"]
                /\ UNCHANGED idxLog
           ELSE /\ idxLog' = idxLog \cup {IdxEntry(pre)}
                /\ UNCHANGED pc
    /\ UNCHANGED <<backends, next, i, added, hc, hist, current0, monVars, callVars>>
    /\ UNCHANGED <<lockVars, reqVars>>

\* a direct call of the exported NextIndex by goroutine p
NextIndex(p) ==
    /\ pc[p] = "idle"
    /\ Free(p)
    /\ calls < MaxCalls
    /\ current' = AddUint64(current, 1)
    /\ calls' = calls + 1
    /\ IF LenBackends = 0
       THEN /\ pc' = [pc EXCEPT ![p] = "panic"]   \* integer divide by zero
            /\ UNCHANGED idxLog
       ELSE /\ idxLog' = idxLog \cup {IdxEntry(current)}
            /\ UNCHANGED pc
    /\ UNCHANGED <<backends, next, i, added, hc, hist, current0, monVars, callVars>>
    /\ UNCHANGED <<lockVars, reqVars>>

(* ------------------------------ NextPeer ------------------------------- *)
\* the backends whose flag is true now
AliveNow == { b \in DOMAIN backends : backends[b] }

\* mutant: the slot after the loop variable's
ScanIndexOffByOne(iv, len) == (iv + 1) % len

\* index := i % len(s.backends)
ScanIndex(iv, len) == iv % len

\* the record of a NextPeer call by p that returned peer
PeerEntry(p, peer) == [p |-> p, start |-> next[p], peer |-> peer]

\* mutant: after a loop that found nothing, the backend examined last is
\* returned instead of nil
ReturnLastExamined(p, peer) ==
    /\ pc' = [pc EXCEPT ![p] = "idle"]
    /\ next' = [next EXCEPT ![p] = 0]
    /\ i' = [i EXCEPT ![p] = 0]
    /\ added' = [added EXCEPT ![p] = Uint64(0)]
    /\ hist' = Append(hist, PeerEntry(p, IF peer = NilPeer
                                         THEN ScanIndex(i[p], LenBackends)
                                         ELSE peer))

\* NextPeer's return: the locals die, the call is recorded
Return(p, peer) ==
    /\ pc' = [pc EXCEPT ![p] = "idle"]
    /\ next' = [next EXCEPT ![p] = 0]
    /\ i' = [i EXCEPT ![p] = 0]
    /\ added' = [added EXCEPT ![p] = Uint64(0)]
    /\ hist' = Append(hist, PeerEntry(p, peer))

\* next := s.NextIndex(); l := len(s.backends) + next; i := next
NextPeerBegin(p) ==
    /\ pc[p] = "idle"
    /\ lpc[p] = "out"
    /\ hpc[p] \in {"none", "call", "lbcall"}
    /\ calls < MaxCalls
    /\ current' = AddUint64(current, 1)
    /\ calls' = calls + 1
    /\ IF LenBackends = 0
       THEN /\ pc' = [pc EXCEPT ![p] = "panic"]   \* integer divide by zero
            /\ UNCHANGED <<idxLog, next, i, added>>
       ELSE /\ idxLog' = idxLog \cup {IdxEntry(current)}
            /\ next' = [next EXCEPT ![p] = IndexOf(current', LenBackends)]
            /\ i' = [i EXCEPT ![p] = IndexOf(current', LenBackends)]
            /\ added' = [added EXCEPT ![p] = current']
            /\ pc' = [pc EXCEPT ![p] = "scan"]
    /\ readLog' = [readLog EXCEPT ![p] = <<>>]
    /\ stayed' = [stayed EXCEPT ![p] = AliveNow]
    /\ ever' = [ever EXCEPT ![p] = AliveNow]
    /\ ops' = [ops EXCEPT ![p] = [incs |-> 1, stores |-> 0]]
    /\ UNCHANGED <<backends, hc, hist, current0, monVars>>
    /\ hpc' = [hpc EXCEPT ![p] = IF @ = "call" THEN "wait"
                                  ELSE IF @ = "lbcall" THEN "lbwait" ELSE @]
    /\ began' = [began EXCEPT ![p] = IF hpc[p] # "none" THEN @ + 1 ELSE @]
    /\ UNCHANGED <<lockVars, att, resp>>

\* mutant: the loop stops at the end of the slice, l := len(s.backends), and
\* never wraps around to the slots before the start
NextPeerScanNoWrap(p) ==
    /\ pc[p] = "scan"
    /\ WriteLocked(ScanIndex(i[p], LenBackends)) = {}   \* IsAlive's RLock is granted
    /\ LET index == ScanIndex(i[p], LenBackends)
           l == LenBackends
       IN  IF IsAlive(index)
           THEN IF i[p] # next[p]
                THEN /\ pc' = [pc EXCEPT ![p] = "store"]
                     /\ UNCHANGED <<next, i, added, hist>>
                ELSE Return(p, index)
           ELSE IF i[p] + 1 < l
                THEN /\ i' = [i EXCEPT ![p] = i[p] + 1]
                     /\ UNCHANGED <<pc, next, added, hist>>
                ELSE Return(p, NilPeer)
    /\ readLog' = [readLog EXCEPT ![p] =
                      Append(@, [index |-> ScanIndex(i[p], LenBackends),
                                 alive |-> backends[ScanIndex(i[p], LenBackends)]])]
    /\ UNCHANGED <<backends, current, hc, calls, idxLog, current0, monVars>>
    /\ stayed' = [stayed EXCEPT ![p] = IF pc'[p] = "idle" THEN {} ELSE @]
    /\ ever' = [ever EXCEPT ![p] = IF pc'[p] = "idle" THEN {} ELSE @]
    /\ UNCHANGED ops
    /\ UNCHANGED <<lockVars, reqVars>>

\* mutant: the loop ends one slot early, l := len(s.backends) + next - 1
NextPeerScanShort(p) ==
    /\ pc[p] = "scan"
    /\ WriteLocked(ScanIndex(i[p], LenBackends)) = {}   \* IsAlive's RLock is granted
    /\ LET index == ScanIndex(i[p], LenBackends)
           l == LenBackends + next[p] - 1
       IN  IF IsAlive(index)
           THEN IF i[p] # next[p]
                THEN /\ pc' = [pc EXCEPT ![p] = "store"]
                     /\ UNCHANGED <<next, i, added, hist>>
                ELSE Return(p, index)
           ELSE IF i[p] + 1 < l
                THEN /\ i' = [i EXCEPT ![p] = i[p] + 1]
                     /\ UNCHANGED <<pc, next, added, hist>>
                ELSE Return(p, NilPeer)
    /\ readLog' = [readLog EXCEPT ![p] =
                      Append(@, [index |-> ScanIndex(i[p], LenBackends),
                                 alive |-> backends[ScanIndex(i[p], LenBackends)]])]
    /\ UNCHANGED <<backends, current, hc, calls, idxLog, current0, monVars>>
    /\ stayed' = [stayed EXCEPT ![p] = IF pc'[p] = "idle" THEN {} ELSE @]
    /\ ever' = [ever EXCEPT ![p] = IF pc'[p] = "idle" THEN {} ELSE @]
    /\ UNCHANGED ops
    /\ UNCHANGED <<lockVars, reqVars>>

\* mutant: the loop runs one slot too far, i <= l
NextPeerScanInclusive(p) ==
    /\ pc[p] = "scan"
    /\ WriteLocked(ScanIndex(i[p], LenBackends)) = {}   \* IsAlive's RLock is granted
    /\ LET index == ScanIndex(i[p], LenBackends)
           l == LenBackends + next[p]
       IN  IF IsAlive(index)
           THEN IF i[p] # next[p]
                THEN /\ pc' = [pc EXCEPT ![p] = "store"]
                     /\ UNCHANGED <<next, i, added, hist>>
                ELSE Return(p, index)
           ELSE IF i[p] + 1 <= l
                THEN /\ i' = [i EXCEPT ![p] = i[p] + 1]
                     /\ UNCHANGED <<pc, next, added, hist>>
                ELSE Return(p, NilPeer)
    /\ readLog' = [readLog EXCEPT ![p] =
                      Append(@, [index |-> ScanIndex(i[p], LenBackends),
                                 alive |-> backends[ScanIndex(i[p], LenBackends)]])]
    /\ UNCHANGED <<backends, current, hc, calls, idxLog, current0, monVars>>
    /\ stayed' = [stayed EXCEPT ![p] = IF pc'[p] = "idle" THEN {} ELSE @]
    /\ ever' = [ever EXCEPT ![p] = IF pc'[p] = "idle" THEN {} ELSE @]
    /\ UNCHANGED ops
    /\ UNCHANGED <<lockVars, reqVars>>

\* one iteration of the loop: index := i % len; s.backends[index].IsAlive()
NextPeerScan(p) ==
    /\ pc[p] = "scan"
    /\ WriteLocked(ScanIndex(i[p], LenBackends)) = {}   \* IsAlive's RLock is granted
    /\ LET index == ScanIndex(i[p], LenBackends)
           l == LenBackends + next[p]
       IN  IF IsAlive(index)
           THEN IF i[p] # next[p]
                THEN /\ pc' = [pc EXCEPT ![p] = "store"]
                     /\ UNCHANGED <<next, i, added, hist>>
                ELSE Return(p, index)
           ELSE IF i[p] + 1 < l
                THEN /\ i' = [i EXCEPT ![p] = i[p] + 1]
                     /\ UNCHANGED <<pc, next, added, hist>>
                ELSE Return(p, NilPeer)
    /\ readLog' = [readLog EXCEPT ![p] =
                      Append(@, [index |-> ScanIndex(i[p], LenBackends),
                                 alive |-> backends[ScanIndex(i[p], LenBackends)]])]
    /\ UNCHANGED <<backends, current, hc, calls, idxLog, current0, monVars>>
    /\ stayed' = [stayed EXCEPT ![p] = IF pc'[p] = "idle" THEN {} ELSE @]
    /\ ever' = [ever EXCEPT ![p] = IF pc'[p] = "idle" THEN {} ELSE @]
    /\ UNCHANGED ops
    /\ UNCHANGED <<lockVars, reqVars>>

\* mutant: the found backend returned without the store
NextPeerStoreSkipped(p) ==
    /\ pc[p] = "store"
    /\ Return(p, ScanIndex(i[p], LenBackends))
    /\ stayed' = [stayed EXCEPT ![p] = {}]
    /\ ever' = [ever EXCEPT ![p] = {}]
    /\ UNCHANGED <<backends, current, hc, calls, idxLog, current0, monVars, readLog, ops>>
    /\ UNCHANGED <<lockVars, reqVars>>

\* mutant: the loop variable stored instead of the index, uint64(i)
NextPeerStoreLoopVar(p) ==
    /\ pc[p] = "store"
    /\ current' = Uint64(i[p])
    /\ Return(p, ScanIndex(i[p], LenBackends))
    /\ ops' = [ops EXCEPT ![p].stores = @ + 1]
    /\ UNCHANGED <<backends, hc, calls, idxLog, current0, monVars>>
    /\ stayed' = [stayed EXCEPT ![p] = {}]
    /\ ever' = [ever EXCEPT ![p] = {}]
    /\ UNCHANGED readLog
    /\ UNCHANGED <<lockVars, reqVars>>

\* mutant: the index is stored but the start slot returned, s.backends[next]
NextPeerStoreReturnsStart(p) ==
    /\ pc[p] = "store"
    /\ current' = Uint64(ScanIndex(i[p], LenBackends))
    /\ Return(p, next[p])
    /\ ops' = [ops EXCEPT ![p].stores = @ + 1]
    /\ UNCHANGED <<backends, hc, calls, idxLog, current0, monVars>>
    /\ stayed' = [stayed EXCEPT ![p] = {}]
    /\ ever' = [ever EXCEPT ![p] = {}]
    /\ UNCHANGED readLog
    /\ UNCHANGED <<lockVars, reqVars>>

\* atomic.StoreUint64(&s.current, uint64(index)); return s.backends[index]
NextPeerStore(p) ==
    /\ pc[p] = "store"
    /\ current' = Uint64(ScanIndex(i[p], LenBackends))
    /\ Return(p, ScanIndex(i[p], LenBackends))
    /\ ops' = [ops EXCEPT ![p].stores = @ + 1]
    /\ UNCHANGED <<backends, hc, calls, idxLog, current0, monVars>>
    /\ stayed' = [stayed EXCEPT ![p] = {}]
    /\ ever' = [ever EXCEPT ![p] = {}]
    /\ UNCHANGED readLog
    /\ UNCHANGED <<lockVars, reqVars>>

(* ----------------------------- HealthCheck ----------------------------- *)
\* goroutine p is inside a NextPeer call
InCall(p) == pc[p] \in {"scan", "store"}

\* the goroutines' state, which HealthCheck never touches
callerVars == <<current, pc, next, i, added, calls, idxLog, hist, current0>>

\* isAliveCheck(b.URL): the dial succeeds (true) or fails (false)
isAliveCheck == BOOLEAN

\* for v := range t.C: a tick starts a new pass over s.backends
HealthCheckTick ==
    /\ hc = LenBackends
    /\ hc' = 0
    /\ hcpc' = "probe"
    /\ UNCHANGED <<backends, status, lastSet, callerVars, callVars>>
    /\ UNCHANGED <<lockVars, reqVars>>

\* status := isAliveCheck(b.URL) for the backend at hc
HealthCheckProbe ==
    /\ hc < LenBackends
    /\ hcpc = "probe"
    /\ status' \in isAliveCheck
    /\ hcpc' = "set"
    /\ UNCHANGED <<backends, hc, lastSet, callerVars, callVars>>
    /\ UNCHANGED <<lockVars, reqVars>>

\* mutant: every outcome is stored in the first backend, s.backends[0].SetAlive(status)
HealthCheckSetAliveFirst ==
    /\ hc < LenBackends
    /\ hcpc = "set"
    /\ ReadLocked(hc) = {} /\ WriteLocked(hc) = {}     \* SetAlive's Lock is granted
    /\ backends' = SetAlive(0, status)
    /\ lastSet' = <<[index |-> hc, status |-> status, old |-> backends[hc]]>>
    /\ hc' = hc + 1
    /\ hcpc' = "probe"
    /\ stayed' = [p \in Procs |->
                    IF InCall(p) THEN stayed[p] \ ({hc} \ {b \in {hc} : status})
                    ELSE stayed[p]]
    /\ ever' = [p \in Procs |->
                  IF InCall(p) THEN ever[p] \cup {b \in {hc} : status} ELSE ever[p]]
    /\ UNCHANGED <<status, callerVars, readLog, ops>>
    /\ UNCHANGED <<lockVars, reqVars>>

\* mutant: one probe's outcome is stored in every backend of the pool
HealthCheckSetAliveAll ==
    /\ hc < LenBackends
    /\ hcpc = "set"
    /\ ReadLocked(hc) = {} /\ WriteLocked(hc) = {}     \* SetAlive's Lock is granted
    /\ backends' = [b \in DOMAIN backends |-> status]
    /\ lastSet' = <<[index |-> hc, status |-> status, old |-> backends[hc]]>>
    /\ hc' = hc + 1
    /\ hcpc' = "probe"
    /\ stayed' = [p \in Procs |->
                    IF InCall(p) THEN stayed[p] \ ({hc} \ {b \in {hc} : status})
                    ELSE stayed[p]]
    /\ ever' = [p \in Procs |->
                  IF InCall(p) THEN ever[p] \cup {b \in {hc} : status} ELSE ever[p]]
    /\ UNCHANGED <<status, callerVars, readLog, ops>>
    /\ UNCHANGED <<lockVars, reqVars>>

\* b.SetAlive(status) for the backend at hc, and on to the next backend
HealthCheckSetAlive ==
    /\ hc < LenBackends
    /\ hcpc = "set"
    /\ ReadLocked(hc) = {} /\ WriteLocked(hc) = {}     \* SetAlive's Lock is granted
    /\ backends' = SetAlive(hc, status)
    /\ lastSet' = <<[index |-> hc, status |-> status, old |-> backends[hc]]>>
    /\ hc' = hc + 1
    /\ hcpc' = "probe"
    /\ stayed' = [p \in Procs |->
                    IF InCall(p) THEN stayed[p] \ ({hc} \ {b \in {hc} : status})
                    ELSE stayed[p]]
    /\ ever' = [p \in Procs |->
                  IF InCall(p) THEN ever[p] \cup {b \in {hc} : status} ELSE ever[p]]
    /\ UNCHANGED <<status, callerVars, readLog, ops>>
    /\ UNCHANGED <<lockVars, reqVars>>

(* --------------------- Backend.mu, a sync.RWMutex ---------------------- *)
\* everything but the flags and the goroutines' positions inside the methods
nonLockVars == <<current, pc, next, i, added, hc, calls, idxLog, hist, current0,
                 monVars, callVars, reqVars>>

\* mutant: mu as a plain sync.Mutex, mu.Lock() at the start of IsAlive
IsAliveLockExclusive(g, b) ==
    /\ lpc[g] = "out"
    /\ pc[g] = "idle" /\ hpc[g] = "none"
    /\ Writers(g, b) = {}
    /\ Readers(g, b) = {}
    /\ lpc' = [lpc EXCEPT ![g] = "rlocked"]
    /\ lb' = [lb EXCEPT ![g] = b]
    /\ UNCHANGED <<backends, lv, nonLockVars>>

\* IsAlive: b.mu.RLock(), which waits while a writer holds mu or waits for it
IsAliveRLock(g, b) ==
    /\ lpc[g] = "out"
    /\ pc[g] = "idle" /\ hpc[g] = "none"
    /\ Writers(g, b) = {}
    /\ lpc' = [lpc EXCEPT ![g] = "rlocked"]
    /\ lb' = [lb EXCEPT ![g] = b]
    /\ UNCHANGED <<backends, lv, nonLockVars>>

\* IsAlive: alive = b.Alive
IsAliveRead(g) ==
    /\ lpc[g] = "rlocked"
    /\ lv' = [lv EXCEPT ![g] = backends[lb[g]]]
    /\ lpc' = [lpc EXCEPT ![g] = "rread"]
    /\ UNCHANGED <<backends, lb, nonLockVars>>

\* IsAlive: b.mu.RUnlock(); return
IsAliveRUnlock(g) ==
    /\ lpc[g] = "rread"
    /\ lpc' = [lpc EXCEPT ![g] = "out"]
    /\ lb' = [lb EXCEPT ![g] = 0]
    /\ lv' = [lv EXCEPT ![g] = FALSE]
    /\ UNCHANGED <<backends, nonLockVars>>

\* SetAlive: b.mu.Lock() is entered; one writer at a time gets this far, and
\* from here on new readers wait
SetAliveLock(g, b, alive) ==
    /\ lpc[g] = "out"
    /\ pc[g] = "idle" /\ hpc[g] = "none"
    /\ Writers(g, b) = {}
    /\ lpc' = [lpc EXCEPT ![g] = "wpending"]
    /\ lb' = [lb EXCEPT ![g] = b]
    /\ lv' = [lv EXCEPT ![g] = alive]
    /\ UNCHANGED <<backends, nonLockVars>>

\* SetAlive: b.mu.Lock() returns once the readers that held mu have left
SetAliveLocked(g) ==
    /\ lpc[g] = "wpending"
    /\ Readers(g, lb[g]) = {}
    /\ lpc' = [lpc EXCEPT ![g] = "wlocked"]
    /\ UNCHANGED <<backends, lb, lv, nonLockVars>>

\* SetAlive: b.Alive = alive
SetAliveWrite(g) ==
    /\ lpc[g] = "wlocked"
    /\ backends' = SetAlive(lb[g], lv[g])
    /\ lpc' = [lpc EXCEPT ![g] = "wwritten"]
    /\ stayed' = [p \in Procs |->
                    IF InCall(p) THEN stayed[p] \ ({lb[g]} \ {b \in {lb[g]} : lv[g]})
                    ELSE stayed[p]]
    /\ ever' = [p \in Procs |->
                  IF InCall(p) THEN ever[p] \cup {b \in {lb[g]} : lv[g]} ELSE ever[p]]
    /\ UNCHANGED <<lb, lv, current, pc, next, i, added, hc, calls, idxLog, hist,
                   current0, monVars, readLog, ops, reqVars>>

\* SetAlive: b.mu.Unlock()
SetAliveUnlock(g) ==
    /\ lpc[g] = "wwritten"
    /\ lpc' = [lpc EXCEPT ![g] = "out"]
    /\ lb' = [lb EXCEPT ![g] = 0]
    /\ lv' = [lv EXCEPT ![g] = FALSE]
    /\ UNCHANGED <<backends, nonLockVars>>

\* a step of g inside IsAlive or SetAlive, after it has entered
LockStep(g) ==
    \/ IsAliveRead(g)
    \/ IsAliveRUnlock(g)
    \/ SetAliveLocked(g)
    \/ SetAliveWrite(g)
    \/ SetAliveUnlock(g)

(* ---------------------- LbHandlerWithHealthCheck ---------------------- *)
\* everything but the handlers' state
nonReqVars == <<backends, current, pc, next, i, added, hc, calls, idxLog, hist,
                current0, monVars, callVars, lockVars>>

\* r.Context().Value(AttemptsKey): absent or no int (isInt false), or an int
CtxValues ==
    {[isInt |-> FALSE, val |-> 0]} \cup
    { [isInt |-> TRUE, val |-> n] : n \in -1 .. MaxAttempts }

\* the value if it is an int, else 0
GetAttemptsFromContext(v) == IF v.isInt THEN v.val ELSE 0

\* mutant: the cap reached with the third attempt, attempts >= 3
TooManyAttemptsFromThree(attempts) == attempts >= 3

\* if attempts > 3
TooManyAttempts(attempts) == attempts > 3

\* the backend the latest NextPeer call of p returned
LastPeerOf(p) ==
    LET ks == { k \in 1 .. Len(hist) : hist[k].p = p }
    IN  hist[CHOOSE k \in ks : \A j \in ks : j <= k].peer

\* LbHandler is entered with a request; its first statement calls NextPeer
LbHandlerEnter(p) ==
    /\ Free(p)
    /\ pc[p] = "idle"
    /\ hpc' = [hpc EXCEPT ![p] = "lbcall"]
    /\ att' = [att EXCEPT ![p] = 0]
    /\ began' = [began EXCEPT ![p] = 0]
    /\ UNCHANGED <<resp, nonReqVars>>

\* LbHandler: peer := s.NextPeer() has returned: peer.Proxy.ServeHTTP(w, r) if
\* peer != nil, else http.Error(w, "Service not available", 503)
LbHandlerRespond(p) ==
    /\ hpc[p] = "lbwait"
    /\ pc[p] = "idle"
    /\ resp' = [resp EXCEPT ![p] =
                   <<[attempts |-> att[p], began |-> began[p],
                      peer |-> LastPeerOf(p),
                      status |-> IF LastPeerOf(p) # NilPeer
                                 THEN "proxied" ELSE "unavailable"]>>]
    /\ hpc' = [hpc EXCEPT ![p] = "none"]
    /\ att' = [att EXCEPT ![p] = 0]
    /\ began' = [began EXCEPT ![p] = 0]
    /\ UNCHANGED nonReqVars

\* attempts := GetAttemptsFromContext(r); if attempts > 3
HandlerEnter(p) ==
    /\ Free(p)
    /\ pc[p] = "idle"
    /\ \E v \in CtxValues :
        /\ att' = [att EXCEPT ![p] = GetAttemptsFromContext(v)]
        /\ hpc' = [hpc EXCEPT ![p] =
                      IF TooManyAttempts(GetAttemptsFromContext(v))
                      THEN "reject" ELSE "call"]
    /\ began' = [began EXCEPT ![p] = 0]
    /\ UNCHANGED <<resp, nonReqVars>>

\* http.Error(w, "Service not available", http.StatusServiceUnavailable); return
HandlerReject(p) ==
    /\ hpc[p] = "reject"
    /\ resp' = [resp EXCEPT ![p] = <<[attempts |-> att[p], began |-> began[p],
                                       peer |-> NilPeer, status |-> "unavailable"]>>]
    /\ hpc' = [hpc EXCEPT ![p] = "none"]
    /\ att' = [att EXCEPT ![p] = 0]
    /\ began' = [began EXCEPT ![p] = 0]
    /\ UNCHANGED nonReqVars

\* peer := s.NextPeer() has returned: peer.Proxy.ServeHTTP(w, r) if peer != nil,
\* else http.Error(w, "Service not available", http.StatusServiceUnavailable)
HandlerRespond(p) ==
    /\ hpc[p] = "wait"
    /\ pc[p] = "idle"
    /\ resp' = [resp EXCEPT ![p] =
                   <<[attempts |-> att[p], began |-> began[p],
                      peer |-> LastPeerOf(p),
                      status |-> IF LastPeerOf(p) # NilPeer
                                 THEN "proxied" ELSE "unavailable"]>>]
    /\ hpc' = [hpc EXCEPT ![p] = "none"]
    /\ att' = [att EXCEPT ![p] = 0]
    /\ began' = [began EXCEPT ![p] = 0]
    /\ UNCHANGED nonReqVars

(* --------------------------- specifications ---------------------------- *)
\* concurrent callers of NextIndex only
NextIdx == \E p \in Procs : NextIndex(p)

SpecIdx == Init /\ [][NextIdx]_vars

\* NextPeer calls made one after another by one goroutine, liveness fixed
NextSeq ==
    \/ NextPeerBegin(1)
    \/ NextPeerScan(1)
    \/ NextPeerStore(1)

SpecSeq == Init /\ [][NextSeq]_vars

\* concurrent NextIndex and NextPeer callers, liveness fixed
NextFixed ==
    \E p \in Procs :
        \/ NextIndex(p)
        \/ NextPeerBegin(p)
        \/ NextPeerScan(p)
        \/ NextPeerStore(p)

SpecFixed == Init /\ [][NextFixed]_vars

\* the health monitor alone
NextHealth ==
    \/ HealthCheckTick
    \/ HealthCheckProbe
    \/ HealthCheckSetAlive

SpecHealth == Init /\ [][NextHealth]_vars

\* one goroutine calling NextPeer again and again while the health monitor runs
NextMon ==
    \/ (calls < MonCalls /\ NextPeerBegin(1))
    \/ NextPeerScan(1)
    \/ NextPeerStore(1)
    \/ HealthCheckTick
    \/ HealthCheckProbe
    \/ HealthCheckSetAlive

\* goroutines calling IsAlive and SetAlive on the backends at will
NextLock ==
    \E g \in Procs :
        \/ \E b \in DOMAIN backends : IsAliveRLock(g, b)
        \/ IsAliveRead(g)
        \/ IsAliveRUnlock(g)
        \/ \E b \in DOMAIN backends : \E alive \in BOOLEAN : SetAliveLock(g, b, alive)
        \/ SetAliveLocked(g)
        \/ SetAliveWrite(g)
        \/ SetAliveUnlock(g)

\* a pool as constructed: the counter has its zero value
InitZero == Init /\ current = Uint64(0)

SpecLock == InitZero /\ [][NextLock]_vars

\* one connection's requests, served one after the other by the handler
NextHandler ==
    \/ HandlerEnter(1)
    \/ HandlerReject(1)
    \/ (hpc[1] = "call" /\ NextPeerBegin(1))
    \/ NextPeerScan(1)
    \/ NextPeerStore(1)
    \/ HandlerRespond(1)

SpecHandler == Init /\ [][NextHandler]_vars

\* the ticker keeps firing, every dial ends within its timeout and the
\* monitor's goroutine is scheduled: no step of HealthCheck waits forever
HealthCheckFair ==
    /\ WF_vars(HealthCheckTick)
    /\ WF_vars(HealthCheckProbe)
    /\ WF_vars(HealthCheckSetAlive)

\* the health monitor running for ever beside a goroutine's NextPeer calls
NextLive ==
    \/ (calls < LiveCalls /\ NextPeerBegin(1))
    \/ NextPeerScan(1)
    \/ NextPeerStore(1)
    \/ HealthCheckTick
    \/ HealthCheckProbe
    \/ HealthCheckSetAlive

SpecLive == InitZero /\ [][NextLive]_vars /\ HealthCheckFair

\* the counter at either end of its range
InitEnds == Init /\ current \in {Uint64(0), MaxUint64}

\* the same steps with the counter at either end, without the fairness
SpecCall == InitEnds /\ [][NextLive]_vars

\* the whole program: goroutines serving requests through either handler or
\* calling the pool's and the backends' methods themselves, one function at a
\* time each, and the health monitor; NextPeer's IsAlive and HealthCheck's
\* SetAlive are single steps that wait for the backend's lock
Next ==
    \/ \E p \in Procs :
        \/ NextIndex(p)
        \/ NextPeerBegin(p)
        \/ NextPeerScan(p)
        \/ NextPeerStore(p)
        \/ LbHandlerEnter(p)
        \/ LbHandlerRespond(p)
        \/ HandlerEnter(p)
        \/ HandlerReject(p)
        \/ HandlerRespond(p)
    \/ NextLock
    \/ HealthCheckTick
    \/ HealthCheckProbe
    \/ HealthCheckSetAlive

Spec == Init /\ [][Next]_vars

SpecMon == InitZero /\ [][NextMon]_vars

(* ------------------------------- claims -------------------------------- *)
\* the indices of the pool's slots
Slots == DOMAIN backends

\* the NextPeer calls that have returned
Returned == { hist[k] : k \in 1 .. Len(hist) }

\* C1: with liveness fixed, every backend a NextPeer call returned has its
\* Alive flag set; no call returns a backend whose flag is false.
C1_ReturnedIsAlive ==
    \A e \in Returned : e.peer \in Slots => backends[e.peer]

\* a call skipped a dead backend and returned a later one
C1_Witness ==
    \E e \in Returned :
        /\ e.peer \in Slots
        /\ e.peer # e.start
        /\ ~backends[e.start]

\* C2: with liveness fixed, the backend a NextPeer call returns is the first
\* alive one in the ring order start, start+1, ..., start+N-1 (mod N) from the
\* index its own NextIndex returned: every slot before it in that order is dead.
C2_FirstAliveFromStart ==
    \A e \in Returned :
        e.peer \in Slots =>
            \E d \in 0 .. LenBackends - 1 :
                /\ e.peer = (e.start + d) % LenBackends
                /\ backends[e.peer]
                /\ \A d2 \in 0 .. d - 1 : ~backends[(e.start + d2) % LenBackends]

\* a call went two slots past its start, over the end of the slice, to find
\* the only alive backend
C2_Witness ==
    /\ LenBackends = 3
    /\ \E e \in Returned :
        /\ e.peer \in Slots
        /\ e.peer = (e.start + 2) % 3
        /\ e.peer < e.start

\* C3: when every backend is dead (liveness fixed, N >= 1), every NextPeer call
\* returns no backend, and no call panics.
C3_AllDeadReturnsNone ==
    (LenBackends >= 1 /\ \A j \in Slots : ~backends[j]) =>
        /\ \A e \in Returned : e.peer \notin Slots
        /\ \A p \in Procs : pc[p] # "panic"

\* three calls from three different start slots of an all-dead pool returned
C3_Witness ==
    /\ LenBackends = 3
    /\ \A j \in Slots : ~backends[j]
    /\ Len(hist) = 3
    /\ { hist[k].start : k \in 1 .. 3 } = Slots
    /\ \A k \in 1 .. 3 : hist[k].peer \notin Slots

\* the first alive slot in the ring order k+1, k+2, ..., k+N (mod N), the
\* slot k itself coming last
NextAliveAfter(k) ==
    LET d == CHOOSE d \in 1 .. LenBackends :
                 /\ backends[(k + d) % LenBackends]
                 /\ \A d2 \in 1 .. d - 1 : ~backends[(k + d2) % LenBackends]
    IN  (k + d) % LenBackends

\* C4: with all N backends alive and calls made one after another from any
\* counter value, any N consecutive NextPeer calls return N distinct backends
\* and the call N places later returns the same backend again.
C4_RoundRobin ==
    (LenBackends >= 1 /\ \A j \in Slots : backends[j]) =>
        \A a, b \in 1 .. Len(hist) :
            /\ (a < b /\ b - a < LenBackends) => hist[a].peer # hist[b].peer
            /\ b = a + LenBackends => hist[a].peer = hist[b].peer

\* C5: with liveness fixed, at least one backend alive and calls made one after
\* another, each NextPeer call returns the next alive backend strictly after
\* the one the previous call returned, in forward ring order.
C5_NextAliveInTurn ==
    (\E j \in Slots : backends[j]) =>
        \A a \in 1 .. Len(hist) - 1 :
            /\ hist[a].peer \in Slots
            /\ hist[a + 1].peer = NextAliveAfter(hist[a].peer)

\* the record of the NextPeer call that returned last
LastCall == hist[Len(hist)]

\* C6: after a NextPeer call that ran alone and returned the backend at index
\* k, the counter identifies that backend, current mod N = k; when the backend
\* was found past the start slot the counter is that index itself.  For the
\* pool [A dead, B alive, C alive] and a counter of 0 the first call returns B.
C6_CursorIdentifiesReturned ==
    /\ (pc[1] = "idle" /\ Len(hist) >= 1 /\ LastCall.peer \in Slots) =>
           /\ ModUint64(current, LenBackends) = LastCall.peer
           /\ LastCall.peer # LastCall.start => current = Uint64(LastCall.peer)
    /\ (/\ backends = (0 :> FALSE @@ 1 :> TRUE @@ 2 :> TRUE)
        /\ current0 = Uint64(0)
        /\ Len(hist) >= 1) => hist[1].peer = 1

\* the pool [A dead, B alive, C alive], a call that started at A's slot has
\* returned B and left the counter at B's index
C6_Witness ==
    /\ backends = (0 :> FALSE @@ 1 :> TRUE @@ 2 :> TRUE)
    /\ pc[1] = "idle"
    /\ Len(hist) >= 1
    /\ LastCall.start = 0
    /\ LastCall.peer = 1
    /\ current = Uint64(1)

\* the counter values handed to the NextIndex invocations before incrementing
PreValues == { e.pre : e \in idxLog }

\* C7: in any interleaving of NextIndex callers on a pool of N >= 1 backends no
\* two calls are handed the same pre-increment counter value, the counter is
\* ahead of its initial value by exactly the number of calls, and every index
\* returned lies in [0, N).
C7_NextIndexLinearizable ==
    LenBackends >= 1 =>
        /\ Cardinality(PreValues) = calls
        /\ current = AddUint64(current0, calls)
        /\ \A e \in idxLog : e.idx \in 0 .. LenBackends - 1

\* three calls on a pool of three have been handed three different counter
\* values and, between them, every index of the pool
C7_Witness ==
    /\ LenBackends = 3
    /\ calls = 3
    /\ Cardinality(PreValues) = 3
    /\ { e.idx : e \in idxLog } = Slots

RECURSIVE LessFrom(_, _, _)
LessFrom(a, b, j) ==
    IF j > NumLimbs
    THEN FALSE
    ELSE \/ a[j] < b[j]
         \/ a[j] = b[j] /\ LessFrom(a, b, j + 1)

\* a < b as unsigned 64 bit values
LessUint64(a, b) == LessFrom(a, b, 1)

\* C8: whenever a NextPeer caller stores the found index, the counter still
\* holds the value that caller's own increment produced.
C8_StoreKeepsOwnIncrement ==
    [][\A p \in Procs :
          (pc[p] = "store" /\ pc'[p] = "idle") => current = added[p]]_vars

\* C9 as stated: no step makes the counter smaller, other than the wrap from
\* the maximum value to 0.
C9_NeverSmaller ==
    [][\/ current' = current
       \/ LessUint64(current, current')
       \/ current = MaxUint64 /\ current' = Uint64(0)]_vars

\* C9 amended: a NextIndex step increments the counter by exactly one modulo
\* 2^64, so it makes it larger or wraps it from the maximum value to 0; the
\* only other write is NextPeer's store, which sets the counter to the index of
\* the backend the call returns, an index in [0, N) found past the start slot.
C9_IncrementOrStore ==
    [][\/ current' = current
       \/ /\ calls' = calls + 1
          /\ current' = AddUint64(current, 1)
          /\ \/ LessUint64(current, current')
             \/ current = MaxUint64 /\ current' = Uint64(0)
       \/ /\ calls' = calls
          /\ Len(hist') = Len(hist) + 1
          /\ hist'[Len(hist')].peer \in Slots
          /\ hist'[Len(hist')].peer # hist'[Len(hist')].start
          /\ current' = Uint64(hist'[Len(hist')].peer)]_vars

\* a store has just put the counter below the value the pool started from
C9_Witness ==
    /\ Len(hist) >= 1
    /\ LastCall.peer \in Slots
    /\ LastCall.peer # LastCall.start
    /\ current = Uint64(LastCall.peer)
    /\ LessUint64(current, current0)
    /\ calls = 1

\* C10: for every counter value and every N >= 1 NextIndex returns a valid slot
\* index and does not panic; from the maximum value the counter wraps to 0 and
\* the call returns index 0.
C10_WrapGivesValidIndex ==
    LenBackends >= 1 =>
        /\ \A p \in Procs : pc[p] # "panic"
        /\ \A e \in idxLog :
              /\ e.idx \in 0 .. LenBackends - 1
              /\ e.pre = MaxUint64 => (e.post = Uint64(0) /\ e.idx = 0)

\* a NextIndex call found the counter at its maximum value, on a pool of three
C10_Witness ==
    /\ LenBackends = 3
    /\ \E e \in idxLog : e.pre = MaxUint64 /\ e.post = Uint64(0)

\* C11: on a pool without backends NextIndex and NextPeer do not fault: no
\* call ends in a panic.
C11_EmptyPoolNoFault ==
    LenBackends = 0 => \A p \in Procs : pc[p] # "panic"

\* C12: the flag of the backend HealthCheck set last equals the outcome of
\* that probe, whatever the flag was before: one failed probe marks the
\* backend dead, one successful probe marks it alive.
C12_FlagFollowsProbe ==
    lastSet # <<>> => backends[lastSet[1].index] = lastSet[1].status

\* a pass of HealthCheck is over; its last probe failed, and the backend,
\* alive until then, is marked dead
C12_Witness ==
    /\ lastSet # <<>>
    /\ hc = LenBackends
    /\ lastSet[1].old
    /\ ~lastSet[1].status
    /\ ~backends[lastSet[1].index]

\* goroutine p returns from NextPeer in this step
Returns(p) == InCall(p) /\ ~InCall(p)'

\* C13: when a NextPeer call returned none and during the next call exactly
\* backend B is alive (B alive and every other backend dead from the start
\* of the call to its return), that call returns B.
C13_RecoveryAfterAllDead ==
    [][\A p \in Procs : \A B \in Slots :
          ( /\ Returns(p)
            /\ hist # <<>>
            /\ LastCall.peer = NilPeer
            /\ stayed[p] = {B}
            /\ ever[p] = {B} )
          => LastCall' = PeerEntry(p, B)]_vars

\* all backends dead and a call returned none; HealthCheck then marked a
\* backend alive, the only one alive now, and the next call returned it
C13_Witness ==
    /\ Len(hist) >= 2
    /\ hist[Len(hist) - 1].peer = NilPeer
    /\ pc[LastCall.p] = "idle"
    /\ lastSet # <<>>
    /\ lastSet[1].status /\ ~lastSet[1].old
    /\ AliveNow = {lastSet[1].index}
    /\ LastCall.peer = lastSet[1].index
    /\ LenBackends >= 2

\* the goroutines inside the critical section of b.mu
InRead(b) == { g \in Procs : lb[g] = b /\ lpc[g] \in {"rlocked", "rread"} }
InWrite(b) == { g \in Procs : lb[g] = b /\ lpc[g] \in {"wlocked", "wwritten"} }

\* C14: on one backend a writer inside SetAlive's critical section excludes
\* every other reader and writer; a goroutine can enter IsAlive whenever no
\* writer holds or waits for that backend's lock, whoever else is reading
\* it and whatever happens on other backends; a writer gets the lock as soon
\* as no reader holds that backend's lock, whatever happens on other
\* backends; and while goroutines are inside the methods one of them can
\* take a step (no deadlock).
C14_PerBackendRWLock ==
    /\ \A b \in DOMAIN backends :
          InWrite(b) # {} => Cardinality(InWrite(b)) = 1 /\ InRead(b) = {}
    /\ \A g \in Procs : \A b \in DOMAIN backends :
          (lpc[g] = "out" /\ Writers(g, b) = {})
              => ENABLED IsAliveRLock(g, b) /\ ENABLED SetAliveLock(g, b, TRUE)
    /\ \A g \in Procs :
          (lpc[g] = "wpending" /\ Readers(g, lb[g]) = {}) => ENABLED SetAliveLocked(g)
    /\ (\E g \in Procs : lpc[g] # "out")
          => \E g \in Procs : lpc[g] # "out" /\ ENABLED LockStep(g)

\* two goroutines hold the read lock of one backend at the same time, one
\* of them having read the flag as alive
C14_Witness ==
    \E b \in DOMAIN backends :
        /\ Cardinality(InRead(b)) >= 2
        /\ \E g \in InRead(b) : lpc[g] = "rread" /\ lv[g] /\ backends[b]

\* HealthCheck's probe of backend b has the outcome v in this step, if this
\* step is a probe of b
ProbeOutcome(b, v) == (HealthCheckProbe /\ hc = b) => status' = v

\* C15: if from some point on every probe of backend b has the outcome v,
\* then from some point on the flag of b is v for good, whatever NextPeer
\* calls run meanwhile.
C15_EventuallyConsistent ==
    \A b \in 0 .. (MaxN - 1) : \A v \in BOOLEAN :
        <>[][ProbeOutcome(b, v)]_vars
            => <>[](b \in DOMAIN backends => backends[b] = v)

\* during a NextPeer call HealthCheck has brought a flag that disagreed with
\* the probe's outcome into line with it
C15_Witness ==
    /\ InCall(1)
    /\ lastSet # <<>>
    /\ lastSet[1].old # lastSet[1].status
    /\ backends[lastSet[1].index] = lastSet[1].status
    /\ readLog[1] # <<>>

\* a step of HealthCheck: its position in the loop moves
MonitorStep == hc' # hc \/ hcpc' # hcpc

\* C16: a step of HealthCheck changes at most the flag of the backend it is
\* at; the cursor, the membership of the pool and the flag of every other
\* backend stay as they are.
C16_MonitorFrame ==
    [][MonitorStep =>
          /\ current' = current
          /\ DOMAIN backends' = DOMAIN backends
          /\ \A b \in DOMAIN backends : b # hc => backends'[b] = backends[b]]_vars

\* HealthCheck has flipped the flag of one backend; another backend has the
\* opposite flag and the cursor is where NextPeer's store put it
C16_Witness ==
    /\ lastSet # <<>>
    /\ lastSet[1].old # lastSet[1].status
    /\ \E b \in DOMAIN backends : b # lastSet[1].index /\ backends[b] # lastSet[1].status
    /\ \E p \in Procs : ops[p].stores = 1 /\ pc[p] = "idle"
    /\ current # Uint64(0)

\* C17: a handler that ends a request whose attempt count is above 3 has
\* answered service-unavailable without a NextPeer call, and none of its own
\* steps moved the cursor; a handler with any other request calls NextPeer
\* exactly once, and when it ends the request it answers service-unavailable
\* exactly when that call returned none, and else forwards to the backend
\* the call returned.
C17_AttemptCap ==
    [][\A p \in Procs :
        /\ (hpc[p] = "reject" \/ hpc'[p] = "reject")
              => current' = current /\ calls' = calls /\ hist' = hist
        /\ hpc'[p] = "call" => att'[p] <= 3 /\ began'[p] = 0
        /\ hpc'[p] = "wait" => att'[p] <= 3 /\ began'[p] = 1
        /\ (hpc[p] # "none" /\ hpc'[p] = "none") =>
              /\ resp'[p][1].attempts = att[p]
              /\ att[p] > 3 =>
                    /\ resp'[p][1].status = "unavailable"
                    /\ resp'[p][1].began = 0
                    /\ hpc[p] = "reject"
              /\ att[p] <= 3 =>
                    /\ resp'[p][1].began = 1
                    /\ resp'[p][1].peer = LastCall.peer
                    /\ resp'[p][1].status = "unavailable" <=> LastCall.peer = NilPeer
                    /\ resp'[p][1].status = "proxied" <=> LastCall.peer \in Slots
      ]_vars

\* a request was forwarded to a backend, which is still alive, and the next
\* request, with attempt count 4, was answered service-unavailable
C17_Witness ==
    /\ resp[1] # <<>>
    /\ resp[1][1].attempts = 4
    /\ resp[1][1].status = "unavailable"
    /\ resp[1][1].began = 0
    /\ Len(hist) = 1
    /\ LastCall.peer \in Slots
    /\ IsAlive(LastCall.peer)

\* goroutine p has made a NextPeer call and the latest one has returned
Completed(p) == pc[p] = "idle" /\ \E k \in 1 .. Len(hist) : hist[k].p = p

\* C18: with HealthCheck changing flags meanwhile, a NextPeer call during
\* which some backend was alive all the time returns a backend; a call that
\* returns none has read every backend once and found each dead at its read.
C18_StayedAliveIsFound ==
    [][\A p \in Procs : Returns(p) =>
          /\ stayed[p] # {} => LastCall'.peer \in Slots
          /\ LastCall'.peer = NilPeer =>
                /\ { readLog'[p][k].index : k \in 1 .. Len(readLog'[p]) } = Slots
                /\ \A k \in 1 .. Len(readLog'[p]) : ~readLog'[p][k].alive]_vars

\* a call has found a backend alive, one that was alive since the call
\* began, after reading another one dead, while HealthCheck changed the flag
\* of some backend
C18_Witness ==
    /\ pc[1] = "store"
    /\ Len(readLog[1]) >= 2
    /\ readLog[1][Len(readLog[1])].index \in stayed[1]
    /\ ever[1] # stayed[1]

\* C19: with HealthCheck changing flags meanwhile, the backend a NextPeer
\* call returns is the one its last IsAlive read was about, and the flag was
\* true at that read.
C19_ReturnedWasAliveAtRead ==
    \A p \in Procs : (Completed(p) /\ LastPeerOf(p) # NilPeer) =>
        /\ readLog[p] # <<>>
        /\ readLog[p][Len(readLog[p])].index = LastPeerOf(p)
        /\ readLog[p][Len(readLog[p])].alive

\* between the read that found the backend alive and the return of the call
\* HealthCheck has marked that backend dead
C19_Witness ==
    /\ pc[1] = "store"
    /\ readLog[1][Len(readLog[1])].alive
    /\ ~backends[readLog[1][Len(readLog[1])].index]
    /\ lastSet # <<>>
    /\ lastSet[1].index = readLog[1][Len(readLog[1])].index

\* the indexes a call of p has read are all different
ReadsDistinct(p) ==
    \A j, k \in 1 .. Len(readLog[p]) :
        readLog[p][j].index = readLog[p][k].index => j = k

\* C20: for N >= 1 a NextPeer call reads at most N flags, no index twice, and
\* can always take its next step, whatever the cursor and however HealthCheck
\* changes the flags; the cursor is written by the increment at the start of
\* a call and by one store, the last step of the call, and by nothing else.
C20_OnePassOneIncrement ==
    /\ [](\A p \in Procs :
            /\ Len(readLog[p]) <= LenBackends
            /\ ReadsDistinct(p)
            /\ InCall(p) => ENABLED (NextPeerScan(p) \/ NextPeerStore(p)))
    /\ [][\A p \in Procs :
            /\ (~InCall(p) /\ InCall(p)') => current' = AddUint64(current, 1)
            /\ (InCall(p) /\ InCall(p)') => current' = current
            /\ (InCall(p) /\ ~InCall(p)') =>
                  \/ current' = current
                  \/ pc[p] = "store" /\ current' = Uint64(readLog[p][Len(readLog[p])].index)
         ]_vars

\* a call that began with the counter at its maximum and ran beside
\* HealthCheck has read all N >= 2 backends, found the last one alive and
\* stored its index
C20_Witness ==
    /\ Completed(1)
    /\ LenBackends >= 2
    /\ Len(readLog[1]) = LenBackends
    /\ ops[1].stores = 1
    /\ current0 = MaxUint64
    /\ lastSet # <<>>

====
